---- MODULE Spec2Model ----
(***************************************************************************)
(* GeoPack: the place-resolution pipeline of geo/parsers.py (GeoParser).   *)
(*                                                                         *)
(* The gazetteer index is the environment: a set of Place documents and    *)
(* the three kinds of request GeoParser sends to it (multi_match search,   *)
(* terms filter on _id, match on _id).  Every method of GeoParser is an    *)
(* operator that threads a context record through its statements: the     *)
(* log of the requests sent so far, the exception in flight (if any), and  *)
(* the internal calls made.  One action runs one public call to its end.   *)
(***************************************************************************)
EXTENDS Integers, Sequences, FiniteSets, TLC

VARIABLES
    idx,              \* ids of the Place documents the index holds
    include_region,   \* GeoParser.include_region
    op,               \* the call that ran last ("none" before any call)
    args,             \* its arguments
    outcome,          \* "ok", or the name of the exception it raised
    result,           \* the list it returned (<<>> when it raised)
    queries,          \* the requests it sent to the index, in order
    calls,            \* the internal methods it invoked
    hits,             \* parse_places: hits, as an insertion-ordered dict
    locs,             \* parse_places: locs
    place_locs,       \* parse_places: place_locs, insertion-ordered dict
    filtered_places,  \* _filter_places: filtered_places, insertion-ordered
    first,            \* outcome and result of the first of two
                      \* _filter_places calls on the same objects
    frame,            \* parse_places run statement by statement: where
                      \* it is, and its locals other than the three dicts
    xtor,             \* GeoParser._xtor: the Extractor, its entities and
                      \* places, and the parse call that assigned it
    threads,          \* two parse calls that run concurrently on one
                      \* GeoParser: where each is, its arguments and outcome
    models,           \* nlp/models.py: Model._instance and the table of
                      \* loaded language models
    detect            \* nlp/extractors.py: a detect_lang call run
                      \* statement by statement

vars == <<idx, include_region, op, args, outcome, result, queries, calls,
          hits, locs, place_locs, filtered_places, first, frame, xtor,
          threads, models, detect>>

(***************************************************************************)
(* Bounds of the model.                                                    *)
(***************************************************************************)
MaxPlaces == 3    \* longest list of place strings handed to one call
MaxFailAt == 2    \* the failing request is one of the first MaxFailAt
MaxEntities == 3    \* named entities of one text
MaxStepPlaces == 2  \* place strings of a parse_places call that is run
                    \* statement by statement
MaxText == 1100   \* characters of the longest text handed to detect_lang
MaxDirect == 2    \* place strings behind the hit set of a direct
                  \* _filter_places call

(***************************************************************************)
(* Python values.                                                          *)
(***************************************************************************)
None == "<None>"          \* None where a string is expected
NoExc == "ok"             \* no exception in flight
TopnNone == -1            \* topn=None (a slice bound of None)
TopnDefault == 0          \* kwargs.get("topn", False); False is the int 0

\* detect_lang: `lim = 1000`, `curr = 200` and `curr += 200`.
lim == 1000
curr_first == 200
curr_step == 200

\* Model._spacy_lang_model (three of its twenty languages: one served by
\* spacy-udpipe, the default language, the multi-language model) and
\* Model._lang_default.
spacy_lang_model ==
    ("cs" :> "udpipe") @@ ("en" :> "en_core_web_sm") @@ ("xx" :> "xx_ent_wiki_sm")
lang_default == "en"

Range(s) == {s[k] : k \in 1..Len(s)}
Min(a, b) == IF a <= b THEN a ELSE b
Max(a, b) == IF a >= b THEN a ELSE b

\* str(n) and int(s) on the ids of the gazetteer (decimal numerals).
Digits == <<"1", "2", "3", "4", "5", "6", "7", "8", "9">>
IdStr(n) == Digits[n]
IdInt(s) == CHOOSE n \in 1..Len(Digits) : Digits[n] = s

\* lst[:topn]
Slice(lst, topn) ==
    IF topn = TopnNone THEN lst
    ELSE SubSeq(lst, 1, Min(topn, Len(lst)))

(***************************************************************************)
(* An insertion-ordered dict: the keys in insertion order and the values.  *)
(***************************************************************************)
EmptyDict == [keys |-> <<>>, val |-> <<>>]
DictHas(d, k) == \E n \in 1..Len(d.keys) : d.keys[n] = k
DictPos(d, k) == CHOOSE n \in 1..Len(d.keys) : d.keys[n] = k
DictGet(d, k) == d.val[DictPos(d, k)]
\* d.update({k: v}) / d[k] = v: a present key keeps its position.
DictSet(d, k, v) ==
    IF DictHas(d, k)
    THEN [d EXCEPT !.val[DictPos(d, k)] = v]
    ELSE [keys |-> Append(d.keys, k), val |-> Append(d.val, v)]

(***************************************************************************)
(* The gazetteer.  Catalogue lists the Place documents an index can hold;  *)
(* idx says which of them it does hold.  Documents 6 and 7 are admin       *)
(* areas no place string matches; 8 (England) is in no index; 9 is a       *)
(* macroregion of Canada that the string "Nunavut" also matches.           *)
(***************************************************************************)
PlaceStrings == {"Ottawa", "Cambridge Bay", "Nunavut"}
Langs == {"en", "xx"}

NoMatch == [p \in PlaceStrings |-> 0]

Catalogue == <<
    [name |-> "Ottawa", placetype |-> "locality", population |-> 9,
     belongsto |-> <<6, 5>>,
     hierarchy |-> <<("region" :> 6) @@ ("country" :> 5)>>,
     names |-> [NoMatch EXCEPT !["Ottawa"] = 9],
     names_lang |-> [l \in Langs |-> NoMatch],
     keys |-> {"name", "placetype", "location", "population", "belongsto",
               "hierarchy"}],
    [name |-> "Cambridge Bay", placetype |-> "locality", population |-> 2,
     belongsto |-> <<7, 3, 5>>,
     hierarchy |-> <<("county" :> 7) @@ ("region" :> 3) @@ ("country" :> 5)>>,
     names |-> [NoMatch EXCEPT !["Cambridge Bay"] = 8],
     names_lang |-> [l \in Langs |-> NoMatch],
     keys |-> {"name", "placetype", "location", "population", "belongsto",
               "hierarchy"}],
    [name |-> "Nunavut", placetype |-> "region", population |-> 30,
     belongsto |-> <<5>>,
     hierarchy |-> <<("region" :> 3) @@ ("country" :> 5)>>,
     names |-> [NoMatch EXCEPT !["Nunavut"] = 7, !["Cambridge Bay"] = 3],
     names_lang |-> [l \in Langs |-> NoMatch],
     keys |-> {"name", "placetype", "location", "population", "belongsto",
               "hierarchy"}],
    [name |-> "Cambridge", placetype |-> "locality", population |-> 100,
     belongsto |-> <<8>>,
     hierarchy |-> <<>>,
     names |-> [NoMatch EXCEPT !["Cambridge Bay"] = 8],
     names_lang |-> [l \in Langs |-> NoMatch],
     keys |-> {"name", "placetype", "location", "belongsto"}],
    [name |-> "Canada", placetype |-> "country", population |-> 0,
     belongsto |-> <<>>,
     hierarchy |-> <<"country" :> 5>>,
     names |-> [NoMatch EXCEPT !["Ottawa"] = 1],
     names_lang |-> [l \in Langs |->
                       IF l = "en" THEN [NoMatch EXCEPT !["Nunavut"] = 9]
                       ELSE [NoMatch EXCEPT !["Nunavut"] = 2]],
     keys |-> {"name", "placetype", "location", "hierarchy"}],
    [name |-> "Ontario", placetype |-> "region", population |-> 0,
     belongsto |-> <<5>>,
     hierarchy |-> <<("region" :> 6) @@ ("country" :> 5)>>,
     names |-> NoMatch,
     names_lang |-> [l \in Langs |-> NoMatch],
     keys |-> {"name", "placetype", "location", "belongsto", "hierarchy"}],
    [name |-> "Kitikmeot", placetype |-> "county", population |-> 0,
     belongsto |-> <<3, 5>>,
     hierarchy |-> <<("county" :> 7) @@ ("region" :> 3) @@ ("country" :> 5)>>,
     names |-> NoMatch,
     names_lang |-> [l \in Langs |-> NoMatch],
     keys |-> {"name", "placetype", "location", "belongsto", "hierarchy"}],
    [name |-> "England", placetype |-> "country", population |-> 0,
     belongsto |-> <<>>,
     hierarchy |-> <<"country" :> 8>>,
     names |-> NoMatch,
     names_lang |-> [l \in Langs |-> NoMatch],
     keys |-> {"name", "placetype", "location", "hierarchy"}],
    [name |-> "Northern Canada", placetype |-> "macroregion", population |-> 0,
     belongsto |-> <<5>>,
     hierarchy |-> <<("macroregion" :> 9) @@ ("country" :> 5)>>,
     names |-> [NoMatch EXCEPT !["Nunavut"] = 1],
     names_lang |-> [l \in Langs |-> NoMatch],
     keys |-> {"name", "placetype", "location", "belongsto", "hierarchy"}]
>>

AdminDocs == {6, 7}    \* held by every index of the model

\* The indexes of the model: which of the documents a place string can
\* match the gazetteer holds.
Indexes ==
    {AdminDocs \cup S : S \in {{1, 2, 3, 4, 5}, {1, 2, 3}, {1, 2, 4, 5},
                               {2, 3, 4}, {3, 5, 9}, {1}, {}}}

(***************************************************************************)
(* The requests GeoParser sends and what the index answers.                *)
(***************************************************************************)
\* "names_lang.{}".format(lang)
NamesLangField(lang) == "names_lang." \o lang

\* The relevance of document i for a multi_match of `place` on `fields`:
\* the best score among the fields searched, 0 when none matches.
Relevance(i, place, fields) ==
    LET scores == {IF "names" \in Range(fields) THEN Catalogue[i].names[place] ELSE 0}
                  \cup {Catalogue[i].names_lang[l][place] :
                           l \in {x \in Langs : NamesLangField(x) \in Range(fields)}}
    IN  CHOOSE m \in scores : \A x \in scores : x <= m

\* A request without a sort clause is answered in descending _score; equal
\* scores come in the index's own order (here: ascending id).
RECURSIVE Ranked(_, _, _)
Ranked(S, place, fields) ==
    IF S = {} THEN <<>>
    ELSE LET top == CHOOSE i \in S : \A j \in S :
                        \/ Relevance(i, place, fields) > Relevance(j, place, fields)
                        \/ /\ Relevance(i, place, fields) = Relevance(j, place, fields)
                           /\ i <= j
         IN  <<top>> \o Ranked(S \ {top}, place, fields)

\* The answer to {"query": {"multi_match": ...}, "size": size}.
SearchResponse(index, place, fields, size) ==
    LET matching == {i \in index : Relevance(i, place, fields) > 0}
    IN  SubSeq(Ranked(matching, place, fields), 1, Min(size, Cardinality(matching)))

(***************************************************************************)
(* The context threaded through a call.                                    *)
(***************************************************************************)
NewCtx(failAt) == [q |-> <<>>, exc |-> NoExc, failAt |-> failAt, calls |-> {}]
Raised(ctx) == ctx.exc # NoExc
Raise(ctx, e) == IF Raised(ctx) THEN ctx ELSE [ctx EXCEPT !.exc = e]
Called(ctx, m) == IF Raised(ctx) THEN ctx ELSE [ctx EXCEPT !.calls = @ \cup {m}]

\* Executing a request: it is logged, and the failAt-th request of the call
\* fails with the index client's ConnectionError.
Execute(ctx, request) ==
    IF Raised(ctx) THEN ctx
    ELSE LET ok == (Len(ctx.q) + 1 # ctx.failAt)
         IN  [ctx EXCEPT !.q = Append(@, [request EXCEPT !.ok = ok]),
                         !.exc = IF ok THEN NoExc ELSE "ConnectionError"]

Request(kind, text, fields, ids, strs, size) ==
    [kind |-> kind, text |-> text, fields |-> fields, ids |-> ids,
     strs |-> strs, size |-> size, ok |-> TRUE]

(***************************************************************************)
(* GeoParser.Meta.                                                         *)
(***************************************************************************)
plimit == 10
MetaFields == {"_id", "_score", "place", "name", "placetype", "belongsto",
               "location", "region", "iso_country", "country", "area",
               "area_square_m", "geomhash", "timezone", "population",
               "geometry", "text", "start_char", "end_char", "label"}

(***************************************************************************)
(* A hit is a dict: `keys` are the keys it has, `none` those whose value   *)
(* is None; the other fields are the values of the keys the pipeline       *)
(* reads.  belongsto holds ancestor ids until _filter_places overwrites it *)
(* with ancestor names.                                                    *)
(***************************************************************************)
\* rec.to_dict(): the stored fields that are not empty.
ToDict(i) ==
    [id |-> "", score |-> 0, place |-> "", region |-> "",
     name |-> Catalogue[i].name,
     placetype |-> Catalogue[i].placetype,
     population |-> Catalogue[i].population,
     belongsto |-> [kind |-> "ids", ids |-> Catalogue[i].belongsto, names |-> <<>>],
     hierarchy |-> Catalogue[i].hierarchy,
     keys |-> Catalogue[i].keys, none |-> {}]

\* rec.get('belongsto', None) is falsy: no key, or an empty list.
NoBelongsto(rec) ==
    \/ "belongsto" \notin rec.keys
    \/ /\ rec.belongsto.kind = "ids" /\ rec.belongsto.ids = <<>>
    \/ /\ rec.belongsto.kind = "names" /\ rec.belongsto.names = <<>>

\* Mutant of resolve_belongsto: the ids are converted with int(), which
\* raises ValueError once `belongsto` holds names.
resolve_belongsto_IntIds(ctx, index, rec) ==
    LET c0 == Called(ctx, "resolve_belongsto") IN
    IF Raised(ctx) \/ NoBelongsto(rec) THEN [ctx |-> c0, ret |-> <<>>]
    ELSE IF rec.belongsto.kind = "names"
    THEN [ctx |-> Raise(c0, "ValueError"), ret |-> <<>>]
    ELSE LET bt == rec.belongsto
             c1 == Execute(c0, Request("terms", "", <<"name">>, bt.ids, <<>>, 0))
             found == {i \in index : i \in Range(bt.ids) /\ Catalogue[i].name # ""}
             RECURSIVE Collect(_)
             Collect(k) ==
                 IF k > Len(bt.ids) THEN <<>>
                 ELSE (IF bt.ids[k] \in found
                       THEN <<[id |-> bt.ids[k], name |-> Catalogue[bt.ids[k]].name]>>
                       ELSE <<>>) \o Collect(k + 1)
         IN  [ctx |-> c1, ret |-> IF Raised(c1) THEN <<>> ELSE Collect(1)]

\* GeoParser.resolve_belongsto: one terms request for all the ids of the
\* record; the names found, in the order of `belongsto`.
resolve_belongsto(ctx, index, rec) ==
    LET c0 == Called(ctx, "resolve_belongsto") IN
    IF Raised(ctx) \/ NoBelongsto(rec) THEN [ctx |-> c0, ret |-> <<>>]
    ELSE LET bt == rec.belongsto
             c1 == Execute(c0, Request("terms", "", <<"name">>,
                                IF bt.kind = "ids" THEN bt.ids ELSE <<>>,
                                IF bt.kind = "names" THEN bt.names ELSE <<>>, 0))
             \* str(_id) of every id asked for
             asked == IF bt.kind = "ids" THEN {IdStr(n) : n \in Range(bt.ids)}
                      ELSE Range(bt.names)
             \* qs: meta.id -> name of the documents found that have a name
             found == {i \in index : IdStr(i) \in asked /\ Catalogue[i].name # ""}
             RECURSIVE Collect(_)
             Collect(k) ==
                 IF k > Len(bt.ids) THEN <<>>
                 ELSE (IF bt.ids[k] \in found
                       THEN <<[id |-> bt.ids[k], name |-> Catalogue[bt.ids[k]].name]>>
                       ELSE <<>>) \o Collect(k + 1)
         IN  IF Raised(c1) THEN [ctx |-> c1, ret |-> <<>>]
             ELSE [ctx |-> c1,
                   ret |-> IF bt.kind = "ids" THEN Collect(1) ELSE <<>>]

\* The exceptions get_hierarchy_items catches around its lookup.
HierarchyLookupCaught == {"IndexError", "AttributeError"}

\* Mutant of get_hierarchy_items: the ancestor is always looked up in the
\* index, whatever belongs_to holds.
get_hierarchy_items_AlwaysLookup(ctx, index, rec, item_type, belongs_to) ==
    LET c0 == Called(ctx, "get_hierarchy_items") IN
    IF Raised(ctx) THEN [ctx |-> c0, ret |-> None]
    ELSE IF "hierarchy" \notin rec.keys \/ rec.hierarchy = <<>>
    THEN [ctx |-> c0, ret |-> None]
    ELSE IF item_type \notin DOMAIN rec.hierarchy[1]
    THEN [ctx |-> c0, ret |-> None]
    ELSE LET hierarchy_id == rec.hierarchy[1][item_type]
             c1 == Execute(c0, Request("match", "", <<"name">>,
                                       <<hierarchy_id>>, <<>>, 0))
             exc == IF Raised(c1) THEN c1.exc
                    ELSE IF hierarchy_id \in index THEN NoExc
                    ELSE "IndexError"
         IN  IF exc \in HierarchyLookupCaught
             THEN [ctx |-> [c1 EXCEPT !.exc = NoExc], ret |-> None]
             ELSE IF exc # NoExc THEN [ctx |-> c1, ret |-> None]
             ELSE [ctx |-> c1, ret |-> Catalogue[hierarchy_id].name]

\* GeoParser.get_hierarchy_items
get_hierarchy_items(ctx, index, rec, item_type, belongs_to) ==
    LET c0 == Called(ctx, "get_hierarchy_items") IN
    IF Raised(ctx) THEN [ctx |-> c0, ret |-> None]
    ELSE IF "hierarchy" \notin rec.keys \/ rec.hierarchy = <<>>
    THEN [ctx |-> c0, ret |-> None]
    ELSE IF item_type \notin DOMAIN rec.hierarchy[1]
    THEN [ctx |-> c0, ret |-> None]
    ELSE LET hierarchy_id == rec.hierarchy[1][item_type]
             known == {k \in 1..Len(belongs_to) : belongs_to[k].id = hierarchy_id}
         IN  IF known # {}
             THEN [ctx |-> c0,
                   ret |-> belongs_to[CHOOSE k \in known : \A j \in known : j <= k].name]
             ELSE LET c1 == Execute(c0, Request("match", "", <<"name">>,
                                                <<hierarchy_id>>, <<>>, 0))
                      exc == IF Raised(c1) THEN c1.exc
                             ELSE IF hierarchy_id \in index THEN NoExc
                             ELSE "IndexError"
                  IN  IF exc \in HierarchyLookupCaught
                      THEN [ctx |-> [c1 EXCEPT !.exc = NoExc], ret |-> None]
                      ELSE IF exc # NoExc THEN [ctx |-> c1, ret |-> None]
                      ELSE [ctx |-> c1, ret |-> Catalogue[hierarchy_id].name]

LocalPlacetypes == {"county", "metro area", "locality", "macrohood",
                    "neighbourhood", "microhood", "campus", "building",
                    "address", "venue"}
CountryPlacetypes == {"empire", "country", "macroregion"}

\* Mutant of CountyElseRegion: the region is looked up whatever the county
\* lookup returned.
CountyElseRegion_Region(county, index, rec, belongs_to) ==
    get_hierarchy_items(county.ctx, index, rec, "region", belongs_to)

\* get_region for the local place types: `if not name:` after the county
\* lookup, then the region lookup.
CountyElseRegion(county, index, rec, belongs_to) ==
    IF county.ret = None \/ county.ret = ""
    THEN get_hierarchy_items(county.ctx, index, rec, "region", belongs_to)
    ELSE county

\* `if region is None: region = rec["name"]`
RegionElseName(region, rec) ==
    IF region.ret = None THEN [ctx |-> region.ctx, ret |-> rec.name]
    ELSE region

\* GeoParser.get_region
get_region(ctx, index, rec, belongs_to) ==
    IF Raised(ctx) THEN [ctx |-> ctx, ret |-> None]
    ELSE IF rec.placetype \in LocalPlacetypes
    THEN CountyElseRegion(
             get_hierarchy_items(Called(ctx, "get_region"), index, rec,
                                 "county", belongs_to),
             index, rec, belongs_to)
    ELSE RegionElseName(
             get_hierarchy_items(
                 IF rec.placetype \in CountryPlacetypes
                 THEN get_hierarchy_items(Called(ctx, "get_region"), index, rec,
                                          "country", belongs_to).ctx
                 ELSE Called(ctx, "get_region"),
                 index, rec, "region", belongs_to),
             rec)

\* Mutant of prepare: "_id" is taken from the first ancestor instead of
\* rec.meta.id.
prepare_ParentId(ctx, index, i, score, inclRegion) ==
    LET obj == ToDict(i)
        parent == IF Catalogue[i].belongsto = <<>> THEN i
                  ELSE Catalogue[i].belongsto[1]
    IN  [ctx |-> ctx,
         ret |-> [obj EXCEPT !.id = IdStr(parent), !.score = score,
                             !.keys = @ \cup {"_id", "lat", "lon", "_score"}]]

\* obj.update(region=...)
SetRegion(obj, rg) ==
    [ctx |-> rg.ctx,
     ret |-> [obj EXCEPT !.region = rg.ret,
                         !.keys = @ \cup {"region"},
                         !.none = IF rg.ret = None THEN @ \cup {"region"} ELSE @]]

\* belongsto = self.resolve_belongsto(obj); obj.update(region=...)
WithRegion(bt, index, obj) ==
    SetRegion(obj, get_region(bt.ctx, index, obj, bt.ret))

\* obj.update({"_id": rec.meta.id, "lat": ..., "lon": ..., "_score": ...})
SetMeta(r, i, score) ==
    [ctx |-> r.ctx,
     ret |-> [r.ret EXCEPT !.id = IdStr(i), !.score = score,
                           !.keys = @ \cup {"_id", "lat", "lon", "_score"}]]

\* GeoParser.prepare, for document i answered with relevance `score`.
prepare(ctx, index, i, score, inclRegion) ==
    SetMeta(IF inclRegion
            THEN WithRegion(resolve_belongsto(ctx, index, ToDict(i)), index,
                            ToDict(i))
            ELSE [ctx |-> ctx, ret |-> ToDict(i)],
            i, score)

\* kwargs.get(key, default) on the keyword arguments of a call.
KwLang(kwargs) == IF "lang" \in kwargs.keys THEN kwargs.lang ELSE None
KwTopn(kwargs) == IF "topn" \in kwargs.keys THEN kwargs.topn ELSE TopnDefault

\* `if lang:` -- None and "" are falsy.
Truthy(s) == s # None /\ s # ""

\* field_names of GeoParser.search_place
field_names(lang) ==
    IF Truthy(lang) THEN <<"name", "names", NamesLangField(lang)>>
    ELSE <<"name", "names">>

\* One more element of the list comprehension.
AppendPrepared(acc, p) == [ctx |-> p.ctx, ret |-> Append(acc, p.ret)]

\* [self.prepare(rec) for rec in qs]: r holds the context and the list
\* built so far.
RECURSIVE PrepareAll(_, _, _, _, _, _)
PrepareAll(r, index, qs, place, fields, inclRegion) ==
    IF qs = <<>> \/ Raised(r.ctx) THEN r
    ELSE PrepareAll(AppendPrepared(r.ret,
                                   prepare(r.ctx, index, qs[1],
                                           Relevance(qs[1], place, fields),
                                           inclRegion)),
                    index, Tail(qs), place, fields, inclRegion)

\* [...][:topn]
SliceResult(all, topn) ==
    IF Raised(all.ctx) THEN [ctx |-> all.ctx, ret |-> <<>>]
    ELSE [ctx |-> all.ctx, ret |-> Slice(all.ret, topn)]

\* GeoParser.search_place
search_place(ctx, index, place, kwargs, inclRegion) ==
    LET fields == field_names(KwLang(kwargs))
    IN  SliceResult(
            PrepareAll([ctx |-> Execute(Called(ctx, "search_place"),
                                        Request("multi_match", place, fields,
                                                <<>>, <<>>, plimit)),
                        ret |-> <<>>],
                       index, SearchResponse(index, place, fields, plimit),
                       place, fields, inclRegion),
            KwTopn(kwargs))

\* Mutant of dehydrate: a field the record lacks is left out.
dehydrate_OmitMissing(rec) ==
    [rec EXCEPT !.keys = @ \cap MetaFields, !.none = @ \cap MetaFields]

\* GeoParser.dehydrate: exactly the declared fields, None for a missing one.
dehydrate(rec) ==
    [rec EXCEPT !.keys = MetaFields,
                !.none = (MetaFields \ rec.keys) \cup (rec.none \cap MetaFields)]

\* result.append(self.dehydrate(found[0])) with place=text, or [] when the
\* search found nothing.
FirstHit(found, text) ==
    IF Raised(found.ctx) \/ found.ret = <<>>
    THEN [ctx |-> found.ctx, ret |-> <<>>]
    ELSE [ctx |-> found.ctx,
          ret |-> <<dehydrate([found.ret[1] EXCEPT !.place = text,
                                                   !.keys = @ \cup {"place"}])>>]

\* Mutant of parse_place: the search is inside the try block, so that
\* `finally: return result` swallows its exception.
parse_place_SearchInTry(ctx, index, text, kwargs, inclRegion) ==
    LET found == search_place(Called(ctx, "parse_place"), index, text, kwargs,
                              inclRegion)
    IN  IF Raised(found.ctx) \/ found.ret = <<>>
        THEN [ctx |-> [found.ctx EXCEPT !.exc = NoExc], ret |-> <<>>]
        ELSE FirstHit(found, text)

\* GeoParser.parse_place
parse_place(ctx, index, text, kwargs, inclRegion) ==
    FirstHit(search_place(Called(ctx, "parse_place"), index, text, kwargs,
                          inclRegion),
             text)

(***************************************************************************)
(* GeoParser._filter_places                                                *)
(***************************************************************************)
\* set(flatten_list(locs.values()))
ids_belongsto(locsD) == UNION {Range(locsD.val[n]) : n \in 1..Len(locsD.val)}

\* [int(k) for k in hits.keys() if int(k) in ids_belongsto]
ids_hilevel(hitsD, locsD) ==
    {IdInt(hitsD.keys[n]) : n \in {m \in 1..Len(hitsD.keys) :
                                     IdInt(hitsD.keys[m]) \in ids_belongsto(locsD)}}

\* Mutant of InHilevel: all() where the code has any().
InHilevel_All(loc_ids, hilevel) ==
    \A n \in 1..Len(loc_ids) : IdInt(loc_ids[n]) \in hilevel

\* any(int(_id) in ids_hilevel for _id in loc_ids)
InHilevel(loc_ids, hilevel) ==
    \E n \in 1..Len(loc_ids) : IdInt(loc_ids[n]) \in hilevel

\* filtered_places: the place strings none of whose hits is high-level.
DropContained(hitsD, locsD, placeD) ==
    LET hilevel == ids_hilevel(hitsD, locsD)
        RECURSIVE Keep(_, _)
        Keep(n, acc) ==
            IF n > Len(placeD.keys) THEN acc
            ELSE IF InHilevel(placeD.val[n], hilevel) THEN Keep(n + 1, acc)
            ELSE Keep(n + 1, DictSet(acc, placeD.keys[n], placeD.val[n]))
    IN  Keep(1, EmptyDict)

\* delimiter.join(values), delimiter ","
RECURSIVE JoinComma(_)
JoinComma(values) ==
    IF values = <<>> THEN ""
    ELSE IF Len(values) = 1 THEN values[1]
    ELSE values[1] \o "," \o JoinComma(Tail(values))

\* _get_tokens(rec, 'belongsto', 'name') once belongsto holds names
get_tokens(rec) ==
    JoinComma((IF "belongsto" \in rec.keys THEN rec.belongsto.names ELSE <<>>)
              \o (IF "name" \in rec.keys THEN <<rec.name>> ELSE <<>>))

\* The attributes a GeoParser has after __init__, with its properties, and
\* the attributes of the class Extractor.
GeoParserAttrs == {"_xtor", "include_region", "lang", "xtor", "_meta"}
ExtractorAttrs == {"_place_labels", "_NER", "get_lang", "get_places", "text",
                   "lang", "entities", "places"}

\* Extractor.similarity(_tokens, threshold=0.9, limit=10, lang=self.lang):
\* the callee is looked up on Extractor, then self.lang reads self._lang.
similarity_call(ctx, tokens) ==
    LET c0 == Called(ctx, "similarity") IN
    IF "similarity" \notin ExtractorAttrs \/ "_lang" \notin GeoParserAttrs
    THEN [ctx |-> Raise(c0, "AttributeError"), ret |-> <<>>]
    ELSE [ctx |-> c0, ret |-> <<>>]

\* belongsto_names = [x['name'] for x in self.resolve_belongsto(hit)]
NamesOf(resolved) == [k \in 1..Len(resolved) |-> resolved[k].name]

\* filtered_hits[key].update({'belongsto': belongsto_names}): filtered_hits[key]
\* is hits[key], the same dict.
OverwriteBelongsto(hit, names) ==
    [hit EXCEPT !.belongsto = [kind |-> "names", ids |-> <<>>, names |-> names],
                !.keys = @ \cup {"belongsto"}]

\* The statements of the inner loop after resolve_belongsto has answered
\* `r` for the hit at position n: st holds ctx, hits, _scores and _tokens.
StoreNames(st, n, r) ==
    IF Raised(r.ctx) THEN [st EXCEPT !.ctx = r.ctx]
    ELSE [ctx |-> r.ctx,
          hits |-> [st.hits EXCEPT
                       !.val[n] = OverwriteBelongsto(@, NamesOf(r.ret))],
          scores |-> DictSet(st.scores, st.hits.keys[n], st.hits.val[n].score),
          tokens |-> DictSet(st.tokens, st.hits.keys[n],
                             get_tokens(OverwriteBelongsto(st.hits.val[n],
                                                           NamesOf(r.ret))))]

\* for key, hit in hits.items(): the hits of one place string get their
\* ancestor names resolved and written over `belongsto`; _scores and _tokens
\* are collected in the order of hits.
RECURSIVE ResolveHits(_, _, _, _)
ResolveHits(st, index, place_hits, n) ==
    IF n > Len(st.hits.keys) \/ Raised(st.ctx) THEN st
    ELSE IF st.hits.keys[n] \notin Range(place_hits)
    THEN ResolveHits(st, index, place_hits, n + 1)
    ELSE ResolveHits(StoreNames(st, n, resolve_belongsto(st.ctx, index,
                                                         st.hits.val[n])),
                     index, place_hits, n + 1)

\* for rec in similarity[:2]: _scores[rec["id1"]] *= rec["similarity"] * 10
RECURSIVE Boost(_, _)
Boost(scores, sim) ==
    IF sim = <<>> THEN scores
    ELSE Boost(DictSet(scores, sim[1].id1,
                       DictGet(scores, sim[1].id1) * sim[1].similarity * 10),
               Tail(sim))

\* sorted(_scores, key=_score, reverse=True)[0]["key"]: the first key, in
\* the order of _scores, that has the highest score.
TopKey(scores) ==
    scores.keys[CHOOSE n \in 1..Len(scores.keys) :
                    /\ \A m \in 1..Len(scores.keys) : scores.val[m] <= scores.val[n]
                    /\ \A m \in 1..(n - 1) : scores.val[m] < scores.val[n]]

\* try: result.append(hits[_scores[0]["key"]]) / except IndexError: continue
AppendWinner(acc, hitsD, ctx, boosted) ==
    [ctx |-> ctx, hits |-> hitsD,
     ret |-> IF boosted.keys = <<>> THEN acc
             ELSE Append(acc, DictGet(hitsD, TopKey(boosted)))]

\* The boost by the two most similar hits, the sort and the pick.
BoostAndPick(acc, rs, sim) ==
    IF Raised(sim.ctx) THEN [ctx |-> sim.ctx, hits |-> rs.hits, ret |-> <<>>]
    ELSE AppendWinner(acc, rs.hits, sim.ctx,
                      Boost(rs.scores, SubSeq(sim.ret, 1, Min(2, Len(sim.ret)))))

\* The body of the outer loop once the inner loop has ended with rs.
PickWinner(acc, rs) ==
    IF Raised(rs.ctx) THEN [ctx |-> rs.ctx, hits |-> rs.hits, ret |-> <<>>]
    ELSE BoostAndPick(acc, rs, similarity_call(rs.ctx, rs.tokens))

\* for place_name, place_hits in filtered_places.items(): st holds ctx, hits
\* and result.
RECURSIVE PickWinners(_, _, _, _)
PickWinners(st, index, filtered, n) ==
    IF n > Len(filtered.keys) \/ Raised(st.ctx) THEN st
    ELSE PickWinners(PickWinner(st.ret,
                                ResolveHits([ctx |-> st.ctx, hits |-> st.hits,
                                             scores |-> EmptyDict,
                                             tokens |-> EmptyDict],
                                            index, filtered.val[n], 1)),
                     index, filtered, n + 1)

\* What a _filter_places call leaves: its context, the list it returns, the
\* hits as it has changed them, and its filtered_places.
FilterOutcome(w, filtered) ==
    [ctx |-> w.ctx, ret |-> w.ret, hits |-> w.hits, filtered |-> filtered]

\* GeoParser._filter_places
filter_places(ctx, index, hitsD, locsD, placeD) ==
    FilterOutcome(PickWinners([ctx |-> Called(ctx, "_filter_places"),
                               hits |-> hitsD, ret |-> <<>>],
                              index, DropContained(hitsD, locsD, placeD), 1),
                  DropContained(hitsD, locsD, placeD))

(***************************************************************************)
(* GeoParser.parse_places                                                  *)
(***************************************************************************)
\* hit.update(place=place)
WithPlace(hit, place) == [hit EXCEPT !.place = place, !.keys = @ \cup {"place"}]

\* loc = [int(bt) for bt in hit["belongsto"]], [] on KeyError
LocOf(hit) == IF "belongsto" \in hit.keys THEN hit.belongsto.ids ELSE <<>>

\* Mutant of AddToHits: only the first hit of the call is stored.
AddToHits_FirstOnly(hitsD, hit) ==
    IF hitsD.keys = <<>> THEN DictSet(hitsD, hit.id, hit) ELSE hitsD

\* hits.update({hit["_id"]: hit})
AddToHits(hitsD, hit) == DictSet(hitsD, hit.id, hit)

\* try: place_locs[place].append(hit["_id"])
\* except KeyError: place_locs[place] = [hit["_id"]]
AddToPlaceLocs(placeD, place, hit) ==
    DictSet(placeD, place,
            Append(IF DictHas(placeD, place) THEN DictGet(placeD, place)
                   ELSE <<>>, hit.id))

\* if loc: locs.update({hit["_id"]: loc})
AddToLocs(locsD, hit) ==
    IF LocOf(hit) # <<>> THEN DictSet(locsD, hit.id, LocOf(hit)) ELSE locsD

\* The body of `for hit in self.search_place(place, **filters)`: st holds
\* ctx, hits, locs and place_locs.
AddHit(st, hit, place) ==
    [st EXCEPT !.hits = AddToHits(@, hit),
               !.place_locs = AddToPlaceLocs(@, place, hit),
               !.locs = AddToLocs(@, hit)]

\* for hit in self.search_place(place, **filters): ...
RECURSIVE CollectHits(_, _, _)
CollectHits(st, found, place) ==
    IF found = <<>> THEN st
    ELSE CollectHits(AddHit(st, WithPlace(found[1], place), place),
                     Tail(found), place)

\* One pass of the outer loop, search_place having answered `found`.
SearchOne(st, found, place) ==
    CollectHits([st EXCEPT !.ctx = found.ctx], found.ret, place)

\* for place in places: ...
RECURSIVE SearchAll(_, _, _, _, _)
SearchAll(st, index, places, kwargs, inclRegion) ==
    IF places = <<>> \/ Raised(st.ctx) THEN st
    ELSE SearchAll(SearchOne(st, search_place(st.ctx, index, places[1], kwargs,
                                              inclRegion),
                             places[1]),
                   index, Tail(places), kwargs, inclRegion)

\* Mutant of SingleResult: the shortcut is taken for two hits, not for one.
SingleResult_Two(hitsD) == Len(hitsD.keys) = 2

\* `if len(hits) == 1`
SingleResult(hitsD) == Len(hitsD.keys) = 1

\* return [self.dehydrate(hit) for hit in hits_filtered]
DehydrateAll(f, s) ==
    [ctx |-> f.ctx,
     ret |-> [k \in 1..Len(f.ret) |-> dehydrate(f.ret[k])],
     hits |-> f.hits, locs |-> s.locs, place_locs |-> s.place_locs,
     filtered |-> f.filtered]

\* parse_places after its search loop has ended with s.
Disambiguate(s, index) ==
    IF Raised(s.ctx)
    THEN [ctx |-> s.ctx, ret |-> <<>>, hits |-> s.hits, locs |-> s.locs,
          place_locs |-> s.place_locs, filtered |-> EmptyDict]
    ELSE IF SingleResult(s.hits)
    THEN [ctx |-> s.ctx, ret |-> <<dehydrate(s.hits.val[1])>>, hits |-> s.hits,
          locs |-> s.locs, place_locs |-> s.place_locs, filtered |-> EmptyDict]
    ELSE DehydrateAll(filter_places(s.ctx, index, s.hits, s.locs, s.place_locs), s)

\* GeoParser.parse_places
parse_places(ctx, index, places, kwargs, inclRegion) ==
    Disambiguate(SearchAll([ctx |-> Called(ctx, "parse_places"),
                            hits |-> EmptyDict, locs |-> EmptyDict,
                            place_locs |-> EmptyDict],
                           index, places, kwargs, inclRegion),
                 index)

(***************************************************************************)
(* GeoParser.parse.  Extractor.places is a list of str (get_places returns *)
(* x.entity of every place-labelled entity), so the first statement of the *)
(* loop body, TextCleaner(place.text), raises AttributeError: the loop     *)
(* never reaches its search.                                               *)
(***************************************************************************)
parse(ctx, index, xplaces) ==
    LET c0 == Called(ctx, "parse") IN
    IF xplaces = <<>> THEN [ctx |-> c0, ret |-> <<>>]
    ELSE [ctx |-> Raise(c0, "AttributeError"), ret |-> <<>>]

(***************************************************************************)
(* nlp/extractors.py: Extractor.  A string is a sequence of characters, so *)
(* that Python's `j in k` on two strings is a computation.                 *)
(***************************************************************************)
Chars == {"a", "b"}
Strings == {<<c>> : c \in Chars} \cup {<<c, d>> : c, d \in Chars}

\* Extractor._place_labels, and a label that is not among them.
place_labels == {"I-LOC", "I-ORG", "FAC", "GPE", "LOC", "PERSON"}
Labels == {"GPE", "DATE"}

\* The named entities the NER can find: an entity string and its label.
Entities == [entity : Strings, label : Labels]

\* The lists of at most n entities.
RECURSIVE EntityLists(_)
EntityLists(n) ==
    IF n = 0 THEN {<<>>}
    ELSE EntityLists(n - 1)
            \cup {Append(l, e) : l \in {x \in EntityLists(n - 1) : Len(x) = n - 1},
                                 e \in Entities}

\* j in k, for two strings
InStr(j, k) ==
    \E at \in 0..(Len(k) - Len(j)) : SubSeq(k, at + 1, at + Len(j)) = j

\* [x.entity for x in self.entities if x.label in self._place_labels]
RECURSIVE PlaceEntities(_)
PlaceEntities(entities) ==
    IF entities = <<>> THEN <<>>
    ELSE (IF entities[1].label \in place_labels THEN <<entities[1].entity>>
          ELSE <<>>) \o PlaceEntities(Tail(entities))

\* all(j not in k for k in places[i + 1:])
KeepPlace(places, i) ==
    \A n \in (i + 1)..Len(places) : ~InStr(places[i], places[n])

\* [j for i, j in enumerate(places) if all(...)]
RECURSIVE Superstrings(_, _)
Superstrings(places, i) ==
    IF i > Len(places) THEN <<>>
    ELSE (IF KeepPlace(places, i) THEN <<places[i]>> ELSE <<>>)
            \o Superstrings(places, i + 1)

\* Extractor.get_places
get_places(entities) == Superstrings(PlaceEntities(entities), 1)

\* GeoParser._xtor before any parse call (None), and an Extractor built
\* from a text with the given entities by parse call `by`.
NoXtor == [set |-> FALSE, entities |-> <<>>, places |-> <<>>, by |-> 0]
Extractor(entities, by) ==
    [set |-> TRUE, entities |-> entities, places |-> get_places(entities),
     by |-> by]

\* The two parse calls that share one GeoParser, and a call that has not
\* started.
Threads == {1, 2}
NoThread == [pc |-> "idle", entities |-> <<>>, incl |-> FALSE,
             outcome |-> NoExc, result |-> <<>>, read |-> 0]

\* The texts of the concurrent calls, as the entities the NER finds in
\* them: a text without entities and a text that names one place.
ConcTexts == {<<>>, <<[entity |-> <<"a", "b">>, label |-> "GPE"]>>}

(***************************************************************************)
(* The calls a client makes.                                               *)
(***************************************************************************)
\* The keyword arguments (**kwargs, **filters) a caller passes.
Kwargs ==
    {[keys |-> K, lang |-> l, topn |-> t] :
        K \in SUBSET {"lang", "topn"}, l \in Langs \cup {None},
        t \in {TopnDefault, TopnNone, 1}}

KwargsSet ==
    {kw \in Kwargs : /\ ("lang" \in kw.keys) = (kw.lang # None)
                     /\ ("topn" \in kw.keys) = (kw.topn # TopnDefault)}

\* The keyword arguments passed on by parse_places (**filters).
FiltersSet == {kw \in KwargsSet : kw.lang # "en"}

\* The lists of at most n place strings.
RECURSIVE PlaceLists(_)
PlaceLists(n) ==
    IF n = 0 THEN {<<>>}
    ELSE LET shorter == PlaceLists(n - 1)
         IN  shorter \cup {Append(l, p) : l \in {x \in shorter : Len(x) = n - 1},
                                         p \in PlaceStrings}

NoArgs == [place |-> "", places |-> <<>>, kwargs |-> [keys |-> {}, lang |-> None,
           topn |-> TopnDefault], failAt |-> 0]
NoFrame == [pc |-> "idle", places |-> <<>>, place |-> "", found |-> <<>>,
            ctx |-> NewCtx(0), kwargs |-> NoArgs.kwargs]
NoFirst == [called |-> FALSE, outcome |-> NoExc, result |-> <<>>]

\* nlp/models.py before the first Model(): no instance, no table.
NoModel ==
    [instance |-> 0, created |-> 0, owner |-> 0, serial |-> 0,
     spacy |-> [l \in DOMAIN spacy_lang_model |-> 0],
     loads |-> [l \in DOMAIN spacy_lang_model |-> 0]]

\* No detect_lang call is running.
NoDetect ==
    [pc |-> "idle", n |-> 0, default |-> None, ok |-> {}, curr |-> 0,
     lang |-> None]

Init ==
    /\ idx \in Indexes
    /\ include_region = FALSE
    /\ op = "none"
    /\ args = NoArgs
    /\ outcome = NoExc
    /\ result = <<>>
    /\ queries = <<>>
    /\ calls = {}
    /\ hits = EmptyDict
    /\ locs = EmptyDict
    /\ place_locs = EmptyDict
    /\ filtered_places = EmptyDict
    /\ first = NoFirst
    /\ frame = NoFrame
    /\ xtor = NoXtor
    /\ threads = [t \in Threads |-> NoThread]
    /\ models = NoModel
    /\ detect = NoDetect

Idle == op = "none"

\* geo.search_place(place, **kwargs)
SearchPlace ==
    /\ Idle
    /\ \E place \in PlaceStrings, kw \in KwargsSet, f \in 0..MaxFailAt :
         \E r \in {search_place(NewCtx(f), idx, place, kw, include_region)} :
         /\ op' = "search_place"
         /\ args' = [NoArgs EXCEPT !.place = place, !.kwargs = kw, !.failAt = f]
         /\ outcome' = r.ctx.exc
         /\ result' = r.ret
         /\ queries' = r.ctx.q
         /\ calls' = r.ctx.calls
    /\ UNCHANGED <<idx, include_region, hits, locs, place_locs, filtered_places, first, frame, xtor, threads,
                   models, detect>>

\* geo.parse_place(text, **filters)
ParsePlace ==
    /\ Idle
    /\ \E place \in PlaceStrings, kw \in KwargsSet, f \in 0..MaxFailAt :
         \E r \in {parse_place(NewCtx(f), idx, place, kw, include_region)} :
         /\ op' = "parse_place"
         /\ args' = [NoArgs EXCEPT !.place = place, !.kwargs = kw, !.failAt = f]
         /\ outcome' = r.ctx.exc
         /\ result' = r.ret
         /\ queries' = r.ctx.q
         /\ calls' = r.ctx.calls
    /\ UNCHANGED <<idx, include_region, hits, locs, place_locs, filtered_places, first, frame, xtor, threads,
                   models, detect>>

\* geo.parse_places(places, **filters)
ParsePlaces ==
    /\ Idle
    /\ \E places \in PlaceLists(MaxPlaces), kw \in FiltersSet, f \in 0..MaxFailAt :
         \E r \in {parse_places(NewCtx(f), idx, places, kw, include_region)} :
         /\ op' = "parse_places"
         /\ args' = [NoArgs EXCEPT !.places = places, !.kwargs = kw, !.failAt = f]
         /\ outcome' = r.ctx.exc
         /\ result' = r.ret
         /\ queries' = r.ctx.q
         /\ calls' = r.ctx.calls
         /\ hits' = r.hits
         /\ locs' = r.locs
         /\ place_locs' = r.place_locs
         /\ filtered_places' = r.filtered
    /\ UNCHANGED <<idx, include_region, first, frame, xtor, threads, models, detect>>

\* geo.parse(text, include_region=...): the text's extracted places are
\* xplaces.  include_region is stored on the instance before anything else.
Parse ==
    /\ Idle
    /\ \E xplaces \in PlaceLists(MaxPlaces), incl \in BOOLEAN :
         \E r \in {parse(NewCtx(0), idx, xplaces)} :
         /\ include_region' = incl
         /\ op' = "parse"
         /\ args' = [NoArgs EXCEPT !.places = xplaces]
         /\ outcome' = r.ctx.exc
         /\ result' = r.ret
         /\ queries' = r.ctx.q
         /\ calls' = r.ctx.calls
    /\ UNCHANGED <<idx, hits, locs, place_locs, filtered_places, first, frame, xtor, threads,
                   models, detect>>

\* geo._filter_places(hits, locs, place_locs) once more, on the objects the
\* first call was given (and has left as they now are).
FilterPlacesAgain ==
    /\ op = "parse_places"
    /\ "_filter_places" \in calls
    /\ ~first.called
    /\ \E r \in {filter_places(NewCtx(0), idx, hits, locs, place_locs)} :
         /\ first' = [called |-> TRUE, outcome |-> outcome,
                      result |-> [k \in 1..Len(result) |-> result[k].id]]
         /\ op' = "_filter_places"
         /\ outcome' = r.ctx.exc
         /\ result' = r.ret
         /\ queries' = r.ctx.q
         /\ calls' = r.ctx.calls
         /\ hits' = r.hits
         /\ filtered_places' = r.filtered
    /\ UNCHANGED <<idx, include_region, args, locs, place_locs, frame, xtor, threads,
                   models, detect>>

\* A caller's place_locs: the one built from the searches, with one more id
\* listed under place string p (none when foreign is "").
ListedUnder(placeD, p, foreign) ==
    IF foreign = "" THEN placeD
    ELSE DictSet(placeD, p,
                 Append(IF DictHas(placeD, p) THEN DictGet(placeD, p) ELSE <<>>,
                        foreign))

\* The ids of the index's documents that are no key of hits.
NotInHits(index, hitsD) == {IdStr(i) : i \in index} \ Range(hitsD.keys)

\* geo._filter_places(hits, locs, place_locs), called by a client with a hit
\* set it has built itself: the hits of up to MaxDirect searches, and a
\* place_locs that may list an id hits does not hold.
FilterPlaces ==
    /\ Idle
    /\ \E places \in PlaceLists(MaxDirect) \ {<<>>} :
         \E s \in {SearchAll([ctx |-> NewCtx(0), hits |-> EmptyDict,
                              locs |-> EmptyDict, place_locs |-> EmptyDict],
                             idx, places, [NoArgs.kwargs EXCEPT !.keys = {"topn"},
                                                                !.topn = TopnNone],
                             include_region)} :
         \E foreign \in {""} \cup NotInHits(idx, s.hits), p \in Range(places) :
         \E r \in {filter_places(NewCtx(0), idx, s.hits, s.locs,
                                 ListedUnder(s.place_locs, p, foreign))} :
           /\ op' = "_filter_places"
           /\ args' = [NoArgs EXCEPT !.places = places,
                                     !.kwargs = [@ EXCEPT !.keys = {"topn"},
                                                          !.topn = TopnNone]]
           /\ outcome' = r.ctx.exc
           /\ result' = r.ret
           /\ queries' = r.ctx.q
           /\ calls' = r.ctx.calls
           /\ hits' = r.hits
           /\ locs' = s.locs
           /\ place_locs' = ListedUnder(s.place_locs, p, foreign)
           /\ filtered_places' = r.filtered
    /\ UNCHANGED <<idx, include_region, first, frame, xtor, threads, models, detect>>

\* The caller takes the outcome; the call's locals are gone.
Return ==
    /\ ~Idle
    /\ op' = "none"
    /\ args' = NoArgs
    /\ outcome' = NoExc
    /\ result' = <<>>
    /\ queries' = <<>>
    /\ calls' = {}
    /\ hits' = EmptyDict
    /\ locs' = EmptyDict
    /\ place_locs' = EmptyDict
    /\ filtered_places' = EmptyDict
    /\ first' = NoFirst
    /\ UNCHANGED <<idx, include_region, frame, xtor, threads, models, detect>>

Next ==
    \/ SearchPlace
    \/ ParsePlace
    \/ ParsePlaces
    \/ Parse
    \/ FilterPlacesAgain
    \/ FilterPlaces
    \/ Return

Spec == Init /\ [][Next]_vars

(***************************************************************************)
(* parse_places run statement by statement (no request fails): frame.pc   *)
(* is the statement the call is at.                                        *)
(***************************************************************************)
\* geo.parse_places(places, **filters) is entered: lines 305-313.
StepCall ==
    /\ frame.pc = "idle"
    /\ \E places \in PlaceLists(MaxStepPlaces), kw \in FiltersSet :
         frame' = [NoFrame EXCEPT !.pc = "for_place", !.places = places,
                                  !.kwargs = kw,
                                  !.ctx = Called(NewCtx(0), "parse_places")]
    /\ hits' = EmptyDict
    /\ locs' = EmptyDict
    /\ place_locs' = EmptyDict
    /\ UNCHANGED <<idx, include_region, op, args, outcome, result, queries,
                   calls, filtered_places, first,
                   xtor, threads, models, detect>>

\* for place in places: ... self.search_place(place, **filters) (314-315)
StepSearch ==
    /\ frame.pc = "for_place"
    /\ IF frame.places = <<>>
       THEN frame' = [frame EXCEPT !.pc = "single"]
       ELSE \E r \in {search_place(frame.ctx, idx, frame.places[1],
                                   frame.kwargs, include_region)} :
              frame' = [frame EXCEPT !.pc = "for_hit", !.ctx = r.ctx,
                                     !.place = frame.places[1],
                                     !.places = Tail(@), !.found = r.ret]
    /\ UNCHANGED <<idx, include_region, op, args, outcome, result, queries,
                   calls, hits, locs, place_locs, filtered_places, first,
                   xtor, threads, models, detect>>

\* hit.update(place=place); hits.update({hit["_id"]: hit}) (316-317)
StepHits ==
    /\ frame.pc = "for_hit"
    /\ IF frame.found = <<>>
       THEN frame' = [frame EXCEPT !.pc = "for_place"] /\ hits' = hits
       ELSE /\ frame' = [frame EXCEPT !.pc = "place_locs"]
            /\ hits' = AddToHits(hits, WithPlace(frame.found[1], frame.place))
    /\ UNCHANGED <<idx, include_region, op, args, outcome, result, queries,
                   calls, locs, place_locs, filtered_places, first,
                   xtor, threads, models, detect>>

\* place_locs[place].append(hit["_id"]) (319-322)
StepPlaceLocs ==
    /\ frame.pc = "place_locs"
    /\ place_locs' = AddToPlaceLocs(place_locs, frame.place,
                                    WithPlace(frame.found[1], frame.place))
    /\ frame' = [frame EXCEPT !.pc = "locs"]
    /\ UNCHANGED <<idx, include_region, op, args, outcome, result, queries,
                   calls, hits, locs, filtered_places, first,
                   xtor, threads, models, detect>>

\* loc = ...; if loc: locs.update({hit["_id"]: loc}) (324-330)
StepLocs ==
    /\ frame.pc = "locs"
    /\ locs' = AddToLocs(locs, WithPlace(frame.found[1], frame.place))
    /\ frame' = [frame EXCEPT !.pc = "for_hit", !.found = Tail(@)]
    /\ UNCHANGED <<idx, include_region, op, args, outcome, result, queries,
                   calls, hits, place_locs, filtered_places, first,
                   xtor, threads, models, detect>>

\* if len(hits) == 1: return [...]; else self._filter_places(...) and
\* return (333-338)
StepDisambiguate ==
    /\ frame.pc = "single"
    /\ \E r \in {Disambiguate([ctx |-> frame.ctx, hits |-> hits, locs |-> locs,
                                place_locs |-> place_locs], idx)} :
         /\ hits' = r.hits
         /\ filtered_places' = r.filtered
         /\ outcome' = r.ctx.exc
         /\ result' = r.ret
         /\ frame' = [frame EXCEPT !.pc = "done", !.ctx = r.ctx]
    /\ UNCHANGED <<idx, include_region, op, args, queries, calls, locs,
                   place_locs, first,
                   xtor, threads, models, detect>>

\* The call is over.
StepReturn ==
    /\ frame.pc = "done"
    /\ frame' = NoFrame
    /\ hits' = EmptyDict
    /\ locs' = EmptyDict
    /\ place_locs' = EmptyDict
    /\ filtered_places' = EmptyDict
    /\ outcome' = NoExc
    /\ result' = <<>>
    /\ UNCHANGED <<idx, include_region, op, args, queries, calls, first,
                   xtor, threads, models, detect>>

StepNext ==
    \/ StepCall
    \/ StepSearch
    \/ StepHits
    \/ StepPlaceLocs
    \/ StepLocs
    \/ StepDisambiguate
    \/ StepReturn

StepSpec == Init /\ [][StepNext]_vars

(***************************************************************************)
(* Extractor(text): the places of a text.                                  *)
(***************************************************************************)
\* Extractor(text, **kwargs), for a text with the entities chosen.
Extract ==
    /\ ~xtor.set
    /\ \E entities \in EntityLists(MaxEntities) : xtor' = Extractor(entities, 0)
    /\ UNCHANGED <<idx, include_region, op, args, outcome, result, queries,
                   calls, hits, locs, place_locs, filtered_places, first, frame,
                   threads, models, detect>>

\* The Extractor is dropped.
Discard ==
    /\ xtor.set
    /\ xtor' = NoXtor
    /\ UNCHANGED <<idx, include_region, op, args, outcome, result, queries,
                   calls, hits, locs, place_locs, filtered_places, first, frame,
                   threads, models, detect>>

PlacesNext ==
    \/ Extract
    \/ Discard

PlacesSpec == Init /\ [][PlacesNext]_vars

(***************************************************************************)
(* Two parse calls on one GeoParser, interleaved statement by statement.   *)
(***************************************************************************)
\* geo.parse(text, include_region=incl) is entered by thread t.
Enter(t) ==
    /\ threads[t].pc = "idle"
    /\ \E text \in ConcTexts, incl \in BOOLEAN :
         threads' = [threads EXCEPT ![t] = [NoThread EXCEPT !.pc = "l99",
                                                            !.entities = text,
                                                            !.incl = incl]]
    /\ UNCHANGED <<idx, include_region, op, args, outcome, result, queries,
                   calls, hits, locs, place_locs, filtered_places, first, frame,
                   xtor, models, detect>>

\* self.include_region = kwargs.pop('include_region', False)
SetIncludeRegion(t) ==
    /\ threads[t].pc = "l99"
    /\ include_region' = threads[t].incl
    /\ threads' = [threads EXCEPT ![t].pc = "l100"]
    /\ UNCHANGED <<idx, op, args, outcome, result, queries, calls, hits, locs,
                   place_locs, filtered_places, first, frame, xtor,
                   models, detect>>

\* self._xtor = Extractor(text, **kwargs)
SetXtor(t) ==
    /\ threads[t].pc = "l100"
    /\ xtor' = Extractor(threads[t].entities, t)
    /\ threads' = [threads EXCEPT ![t].pc = "l106"]
    /\ UNCHANGED <<idx, include_region, op, args, outcome, result, queries,
                   calls, hits, locs, place_locs, filtered_places, first, frame,
                   models, detect>>

\* for place in self._xtor.places: ... return result
Loop(t) ==
    /\ threads[t].pc = "l106"
    /\ \E r \in {parse(NewCtx(0), idx, xtor.places)} :
         threads' = [threads EXCEPT ![t].pc = "done",
                                    ![t].outcome = r.ctx.exc,
                                    ![t].result = r.ret,
                                    ![t].read = xtor.by]
    /\ UNCHANGED <<idx, include_region, op, args, outcome, result, queries,
                   calls, hits, locs, place_locs, filtered_places, first, frame,
                   xtor, models, detect>>

\* The caller of thread t takes the outcome.
Leave(t) ==
    /\ threads[t].pc = "done"
    /\ threads' = [threads EXCEPT ![t] = NoThread]
    /\ UNCHANGED <<idx, include_region, op, args, outcome, result, queries,
                   calls, hits, locs, place_locs, filtered_places, first, frame,
                   xtor, models, detect>>

ConcNext ==
    \E t \in Threads :
        \/ Enter(t)
        \/ SetIncludeRegion(t)
        \/ SetXtor(t)
        \/ Loop(t)
        \/ Leave(t)

ConcSpec == Init /\ [][ConcNext]_vars

(***************************************************************************)
(* geo/documents.py: Place(meta={"remap": True}, **source).  A source is a *)
(* Who's On First feature: its properties are an insertion-ordered dict    *)
(* whose keys are "<schema>:<name>" (one colon), written here as the       *)
(* records of PropKeys together with the value the key holds; its geometry *)
(* is absent, a Point or another shape.                                    *)
(***************************************************************************)
MaxProps == 3     \* properties of one source record

PropKeys ==
    { [schema |-> "geom", name |-> "latitude",  val |-> 45],
      [schema |-> "geom", name |-> "longitude", val |-> 75],
      [schema |-> "lbl",  name |-> "latitude",  val |-> 46],
      [schema |-> "lbl",  name |-> "longitude", val |-> 76],
      [schema |-> "mps",  name |-> "latitude",  val |-> 47],
      [schema |-> "wof",  name |-> "id",        val |-> 101] }

NoGeometry == [type |-> None, coordinates |-> <<>>]
Geometries ==
    { NoGeometry,
      [type |-> "Point",   coordinates |-> <<78, 48>>],
      [type |-> "Point",   coordinates |-> <<78>>],
      [type |-> "Polygon", coordinates |-> <<79, 49>>] }

PropLists(n) ==
    UNION { { p \in [1..k -> PropKeys] :
                \A a, b \in 1..k : a /= b => p[a] /= p[b] } : k \in 0..n }

Sources(n) ==
    { [id |-> 101, properties |-> p, geometry |-> g] :
        p \in PropLists(n), g \in Geometries }

\* key in source.properties, and source.properties[key]
HasProp(props, schema, name) ==
    \E k \in DOMAIN props : props[k].schema = schema /\ props[k].name = name
Prop(props, schema, name) ==
    props[CHOOSE k \in DOMAIN props :
            props[k].schema = schema /\ props[k].name = name].val

\* The dict extract_location returns: {} or {"lat": .., "lon": ..}.
NoLocation == [keys |-> {}, lat |-> 0, lon |-> 0]
Location(lat, lon) == [keys |-> {"lat", "lon"}, lat |-> lat, lon |-> lon]

\* The positions of the keys at which the loop of extract_location returns.
PairedKeys(props) ==
    { k \in DOMAIN props :
        /\ props[k].name = "latitude"
        /\ HasProp(props, props[k].schema, "longitude") }

FirstOf(S) == CHOOSE k \in S : \A j \in S : k <= j

FromPair(props, k) ==
    Location(props[k].val, Prop(props, props[k].schema, "longitude"))

\* The last attempt of extract_location: a Point geometry; a missing
\* geometry (AttributeError) and a missing coordinate (IndexError) give {}.
extract_location_NoPoint(source) ==
    IF /\ HasProp(source.properties, "geom", "latitude")
       /\ HasProp(source.properties, "geom", "longitude")
    THEN Location(Prop(source.properties, "geom", "latitude"),
                  Prop(source.properties, "geom", "longitude"))
    ELSE IF PairedKeys(source.properties) /= {}
    THEN FromPair(source.properties, FirstOf(PairedKeys(source.properties)))
    ELSE NoLocation

extract_location(source) ==
    IF /\ HasProp(source.properties, "geom", "latitude")
       /\ HasProp(source.properties, "geom", "longitude")
    THEN Location(Prop(source.properties, "geom", "latitude"),
                  Prop(source.properties, "geom", "longitude"))
    ELSE IF PairedKeys(source.properties) /= {}
    THEN FromPair(source.properties, FirstOf(PairedKeys(source.properties)))
    ELSE IF /\ source.geometry.type = "Point"
            /\ Len(source.geometry.coordinates) >= 2
    THEN Location(source.geometry.coordinates[2],
                  source.geometry.coordinates[1])
    ELSE NoLocation

\* Place.prepare: the kwargs of the document, or MissingDataError.  The
\* other fields of the document are read from the properties with their
\* own defaults and do not depend on the location.
Place_prepare(source, location) ==
    IF location.keys = {}
    THEN [exc |-> "MissingDataError", docs |-> <<>>]
    ELSE [exc |-> NoExc,
          docs |-> << [id |-> source.id, location |-> location] >>]

\* Place.__init__ with remap: meta.update(id=source.id), then prepare and
\* the Document built from what it returns.
PlaceRemap ==
    /\ Idle
    /\ \E source \in Sources(MaxProps) :
       \E r \in {Place_prepare(source, extract_location(source))} :
          /\ op' = "Place"
          /\ args' = source
          /\ outcome' = r.exc
          /\ result' = r.docs
    /\ UNCHANGED <<idx, include_region, queries, calls, hits, locs,
                   place_locs, filtered_places, first, frame, xtor, threads,
                   models, detect>>

DocNext ==
    \/ PlaceRemap
    \/ Return

DocSpec == Init /\ [][DocNext]_vars

(***************************************************************************)
(* geo.get_hierarchy_items(rec, item_type, belongs_to) called on its own:  *)
(* rec is a Place document as a dict, belongs_to a list of {"id", "name"}  *)
(* as resolve_belongsto returns it (the names need not be those the index  *)
(* holds now).                                                             *)
(***************************************************************************)
MaxBelongs == 2   \* longest belongs_to list handed to get_hierarchy_items

BelongsToItems ==
    { [id |-> 5, name |-> "Canada"], [id |-> 5, name |-> "Kanada"],
      [id |-> 3, name |-> "Nunavut"], [id |-> 8, name |-> "England"] }

BelongsToLists(n) == UNION {[1..k -> BelongsToItems] : k \in 0..n}

GetHierarchyItems ==
    /\ Idle
    /\ \E i \in DOMAIN Catalogue, item_type \in {"county", "region", "country"},
          bt \in BelongsToLists(MaxBelongs), f \in 0..1 :
         \E r \in {get_hierarchy_items(NewCtx(f), idx, ToDict(i), item_type, bt)} :
         /\ op' = "get_hierarchy_items"
         /\ args' = [rec |-> i, item_type |-> item_type, belongs_to |-> bt,
                     failAt |-> f]
         /\ outcome' = r.ctx.exc
         /\ result' = <<r.ret>>
         /\ queries' = r.ctx.q
         /\ calls' = r.ctx.calls
    /\ UNCHANGED <<idx, include_region, hits, locs, place_locs,
                   filtered_places, first, frame, xtor, threads,
                   models, detect>>

HierNext ==
    \/ GetHierarchyItems
    \/ Return

HierSpec == Init /\ [][HierNext]_vars

(***************************************************************************)
(* nlp/models.py: the Model singleton.  models.instance is Model._instance *)
(* (0 for None, else the number of the object), models.created counts the  *)
(* objects object.__new__ has made, models.owner is the object that has    *)
(* the attribute `spacy`, models.spacy that table (0 for None, else the    *)
(* number of the loaded model object: every successful load returns a new  *)
(* object), models.loads counts the assignments of line 161 per language.  *)
(* What func_load and func_download do is the environment's choice.        *)
(***************************************************************************)
LoadOutcomes ==
    { "loaded",           \* func_load(package) returns a model
      "downloaded",       \* OSError, then download and load succeed
      "DownloadError",    \* OSError, then func_download raises
      "OSError" }         \* OSError, download, then OSError again

\* The languages asked for: those of _spacy_lang_model and one that is not.
AskedLangs == DOMAIN spacy_lang_model \cup {"zz"}

\* Model.__new__
Model_new(m) ==
    IF m.instance = 0
    THEN [m EXCEPT !.created = @ + 1, !.instance = m.created + 1]
    ELSE m

\* Model.__init__ up to line 105: the table is made if self has none.
Model_init(m) ==
    IF m.owner # m.instance
    THEN [m EXCEPT !.owner = m.instance,
                   !.spacy = [l \in DOMAIN spacy_lang_model |-> 0]]
    ELSE m

\* self.spacy[lang] = model, with the model func_load has just returned.
StoreModel(m, lang) ==
    [m EXCEPT !.serial = @ + 1,
              !.spacy[lang] = m.serial + 1,
              !.loads[lang] = @ + 1]

\* Mutant of ensure_model: without `if self.spacy[lang]: return`.
ensure_model_NoGuard(m, lang, load) ==
    IF lang \notin DOMAIN m.spacy
    THEN [m |-> m, exc |-> "NotSupportedModelError"]
    ELSE IF load \in {"loaded", "downloaded"}
    THEN [m |-> StoreModel(m, lang), exc |-> NoExc]
    ELSE [m |-> m, exc |-> load]

\* Model.ensure_model('spacy.' + lang)
ensure_model(m, lang, load) ==
    IF lang \notin DOMAIN m.spacy
    THEN [m |-> m, exc |-> "NotSupportedModelError"]
    ELSE IF m.spacy[lang] # 0
    THEN [m |-> m, exc |-> NoExc]
    ELSE IF load \in {"loaded", "downloaded"}
    THEN [m |-> StoreModel(m, lang), exc |-> NoExc]
    ELSE [m |-> m, exc |-> load]

\* Model(): __new__, then __init__ with its ensure_model of the default
\* language.  args.before is the table as the call found it.
NewModel ==
    /\ Idle
    /\ \E load \in LoadOutcomes :
       \E r \in {ensure_model(Model_init(Model_new(models)), lang_default, load)} :
          /\ models' = r.m
          /\ op' = "Model"
          /\ args' = [lang |-> lang_default, load |-> load,
                      before |-> Model_init(Model_new(models)).spacy]
          /\ outcome' = r.exc
          /\ result' = IF r.exc = NoExc THEN <<r.m.instance>> ELSE <<>>
    /\ UNCHANGED <<idx, include_region, queries, calls, hits, locs,
                   place_locs, filtered_places, first, frame, xtor, threads,
                   detect>>

\* Model._instance.ensure_model('spacy.' + lang)
EnsureModel ==
    /\ Idle
    /\ models.instance # 0
    /\ \E lang \in AskedLangs, load \in LoadOutcomes :
       \E r \in {ensure_model(models, lang, load)} :
          /\ models' = r.m
          /\ op' = "ensure_model"
          /\ args' = [lang |-> lang, load |-> load, before |-> models.spacy]
          /\ outcome' = r.exc
          /\ result' = <<>>
    /\ UNCHANGED <<idx, include_region, queries, calls, hits, locs,
                   place_locs, filtered_places, first, frame, xtor, threads,
                   detect>>

ModelNext ==
    \/ NewModel
    \/ EnsureModel
    \/ Return

ModelSpec == Init /\ [][ModelNext]_vars

(***************************************************************************)
(* nlp/extractors.py: detect_lang(text, engine='polyglot', default) run    *)
(* statement by statement.  A text is its number of characters, detect.n;  *)
(* detect.ok are the lengths of its truncations on which the detector      *)
(* yields a language code (on the others Detector(txt) raises and          *)
(* _do_detect returns `default`).  smart_truncate(text, limit=curr) keeps  *)
(* at most curr characters, and the whole text once curr reaches its       *)
(* length.  Python's curr grows without bound; here it stops growing once  *)
(* it exceeds both lim and the length of the text, where neither the loop  *)
(* test nor the truncation tells larger values apart.                      *)
(***************************************************************************)
TextLens == {lim, lim + 1, MaxText}

\* The lengths smart_truncate can return for a text of n characters.
TruncLens(n) ==
    {Min(n, curr_first + k * curr_step) : k \in 0..(n \div curr_step)}

\* detect_lang._do_detect for the polyglot engine
do_detect(d, len) == IF len \in d.ok THEN "en" ELSE d.default

\* while (not lang) or (curr <= lim)
LoopTest(d) == d.lang = None \/ d.curr <= lim

\* Lines 43-57: a text of at most lim characters is detected at once.
DetectCall ==
    /\ detect.pc = "idle"
    /\ \E n \in TextLens, default \in {None, "en"} :
       \E ok \in SUBSET (IF n <= lim THEN {n} ELSE TruncLens(n)) :
          detect' =
             IF n <= lim
             THEN [pc |-> "done", n |-> n, default |-> default, ok |-> ok,
                   curr |-> 0,
                   lang |-> IF n \in ok THEN "en" ELSE default]
             ELSE [pc |-> "loop", n |-> n, default |-> default, ok |-> ok,
                   curr |-> curr_first, lang |-> None]
    /\ UNCHANGED <<idx, include_region, op, args, outcome, result, queries,
                   calls, hits, locs, place_locs, filtered_places, first,
                   frame, xtor, threads, models>>

\* Lines 58-61: the loop test holds; the detector runs on the truncation.
DetectTry ==
    /\ detect.pc = "loop"
    /\ LoopTest(detect)
    /\ detect' = [detect EXCEPT
                     !.pc = "advance",
                     !.lang = do_detect(detect, Min(detect.n, detect.curr))]
    /\ UNCHANGED <<idx, include_region, op, args, outcome, result, queries,
                   calls, hits, locs, place_locs, filtered_places, first,
                   frame, xtor, threads, models>>

\* Line 62: curr += 200
DetectAdvance ==
    /\ detect.pc = "advance"
    /\ detect' = [detect EXCEPT
                     !.pc = "loop",
                     !.curr = IF @ > lim /\ @ > detect.n THEN @
                              ELSE @ + curr_step]
    /\ UNCHANGED <<idx, include_region, op, args, outcome, result, queries,
                   calls, hits, locs, place_locs, filtered_places, first,
                   frame, xtor, threads, models>>

\* Lines 58 and 64: the loop test fails; return lang.
DetectExit ==
    /\ detect.pc = "loop"
    /\ ~LoopTest(detect)
    /\ detect' = [detect EXCEPT !.pc = "done"]
    /\ UNCHANGED <<idx, include_region, op, args, outcome, result, queries,
                   calls, hits, locs, place_locs, filtered_places, first,
                   frame, xtor, threads, models>>

\* The caller takes the language code.
DetectReturn ==
    /\ detect.pc = "done"
    /\ detect' = NoDetect
    /\ UNCHANGED <<idx, include_region, op, args, outcome, result, queries,
                   calls, hits, locs, place_locs, filtered_places, first,
                   frame, xtor, threads, models>>

DetectNext ==
    \/ DetectCall
    \/ DetectTry
    \/ DetectAdvance
    \/ DetectExit
    \/ DetectReturn

DetectSpec == Init /\ [][DetectNext]_vars

\* A call that has started keeps executing its next statement.
DetectFair ==
    /\ DetectSpec
    /\ WF_vars(DetectTry)
    /\ WF_vars(DetectAdvance)
    /\ WF_vars(DetectExit)

(***************************************************************************)
(* Properties.                                                             *)
(***************************************************************************)
Disambiguated == op \in {"parse_places", "_filter_places"}
Returned == outcome = NoExc
ResultIds == {result[k].id : k \in 1..Len(result)}
IdsOf(placeD, p) == Range(DictGet(placeD, p))
SearchedPlaces == Range(place_locs.keys)

\* The place strings that produced a hit A whose id is in the belongsto of
\* a hit B of a different place string of the same call.
ContainerBranches ==
    {pa \in SearchedPlaces :
        \E pb \in SearchedPlaces \ {pa} :
            \E a \in IdsOf(place_locs, pa), b \in IdsOf(place_locs, pb) :
                /\ DictHas(hits, a)
                /\ DictHas(locs, b)
                /\ IdInt(a) \in Range(DictGet(locs, b))}

\* C1: containment exclusion.  Whenever hit A's id is in hit B's belongsto
\* and A and B are candidates of two different place strings of one call,
\* the place string that produced A is not among the filtered places of
\* _filter_places, and no hit of that place string is in a returned list.
C1_ContainmentExclusion ==
    Disambiguated =>
        \A pa \in ContainerBranches :
            /\ ~DictHas(filtered_places, pa)
            /\ Returned => ResultIds \cap IdsOf(place_locs, pa) = {}

\* C1 witness: a call with a container branch went through _filter_places
\* and returned a list.
C1_Witness ==
    /\ op = "parse_places"
    /\ "_filter_places" \in calls
    /\ ContainerBranches # {}
    /\ Returned

RECURSIVE SumLen(_)
SumLen(lists) == IF lists = <<>> THEN 0 ELSE Len(lists[1]) + SumLen(Tail(lists))
\* The number of hits the searches of the call returned, over all strings.
TotalHits == SumLen(place_locs.val)

AncestorLookups == {k \in 1..Len(queries) : queries[k].kind \in {"terms", "match"}}

\* The single hit comes back as the search returned it, annotated with its
\* place string: same id, score, name and ancestor ids.
SingleHitUnchanged ==
    /\ Len(result) = 1
    /\ LET i == IdInt(place_locs.val[1][1])
           fields == field_names(KwLang(args.kwargs))
       IN  /\ result[1].id = IdStr(i)
           /\ result[1].name = Catalogue[i].name
           /\ result[1].score = Relevance(i, place_locs.keys[1], fields)
           /\ result[1].belongsto = [kind |-> "ids", ids |-> Catalogue[i].belongsto,
                                     names |-> <<>>]
           /\ result[1].place = place_locs.keys[1]

FailedRequests == {k \in 1..Len(queries) : ~queries[k].ok}

\* A parse_places call whose searches, all answered, returned one hit in
\* total.
SingleHitCall == op = "parse_places" /\ FailedRequests = {} /\ TotalHits = 1

SearchedIds ==
    {IdStr(i) : i \in UNION {Range(Slice(SearchResponse(idx, p,
                                    field_names(KwLang(args.kwargs)), plimit),
                                    KwTopn(args.kwargs))) :
                             p \in Range(args.places)}}

\* C3: the ids of the hits the disambiguator returns are ids the searches
\* of the call returned.
C3_NoFabricatedHits ==
    (Disambiguated /\ Returned) => ResultIds \subseteq SearchedIds

\* C3 witness: the disambiguator returned a hit.
C3_Witness == Disambiguated /\ Returned /\ result # <<>>

\* C4: a second _filter_places call on the objects a first call was given
\* ends as the first did: the same list, or the same exception (no index
\* request failing in either).
C4_FilterTwiceSame ==
    (op = "_filter_places" /\ first.called /\ first.outcome # "ConnectionError") =>
        /\ outcome = first.outcome
        /\ [k \in 1..Len(result) |-> result[k].id] = first.result

\* C4 witness: the second call has run on a hit set of two or more hits,
\* some of whose ancestor lists the first call has overwritten with names.
C4_Witness ==
    /\ op = "_filter_places"
    /\ first.called
    /\ first.outcome # "ConnectionError"
    /\ \E n \in 1..Len(hits.val) : hits.val[n].belongsto.kind = "names"
    /\ \E k \in 1..Len(queries) : queries[k].strs # <<>>

StoredFields == <<"name", "names">>
HoldsRecordFor(p) == \E i \in idx : Relevance(i, p, StoredFields) > 0
NunavutIsAncestor ==
    \E n \in idx, b \in idx :
        /\ Relevance(n, "Nunavut", StoredFields) > 0
        /\ \/ Relevance(b, "Ottawa", StoredFields) > 0
           \/ Relevance(b, "Cambridge Bay", StoredFields) > 0
        /\ n \in Range(Catalogue[b].belongsto)

\* C5: parse_places for Ottawa, Cambridge Bay and Nunavut with default
\* arguments, on an index that holds records for each and where a Nunavut
\* hit is an ancestor of an Ottawa or Cambridge Bay hit, returns exactly two
\* places: one for Ottawa, one for Cambridge Bay.
C5_EndToEnd ==
    (/\ op = "parse_places"
     /\ args.places = <<"Ottawa", "Cambridge Bay", "Nunavut">>
     /\ args.kwargs.keys = {}
     /\ \A k \in 1..Len(queries) : queries[k].ok
     /\ \A p \in Range(args.places) : HoldsRecordFor(p)
     /\ NunavutIsAncestor) =>
        /\ Returned
        /\ Len(result) = 2
        /\ {result[k].place : k \in 1..Len(result)} = {"Ottawa", "Cambridge Bay"}

\* What the index answers to the request of the last search_place call.
Answered ==
    SearchResponse(idx, args.place, field_names(KwLang(args.kwargs)), plimit)
Matching ==
    {i \in idx : Relevance(i, args.place, field_names(KwLang(args.kwargs))) > 0}

\* C6: search_place returns at most `limit` hits, and without an explicit
\* limit it returns the first min(k, 10) of the k records the index has
\* for the query.
C6_DefaultLimit ==
    (op = "search_place" /\ Returned) =>
        /\ Len(result) <= plimit
        /\ "topn" \notin args.kwargs.keys =>
              /\ Len(result) = Min(Cardinality(Matching), plimit)
              /\ \A k \in 1..Len(result) : result[k].id = IdStr(Answered[k])

\* C7: the hits search_place returns are in descending population and,
\* among equal populations, in descending relevance score.
C7_PopulationOrder ==
    (op = "search_place" /\ Returned) =>
        \A j, k \in 1..Len(result) :
            (j < k /\ "population" \in result[j].keys
                   /\ "population" \in result[k].keys) =>
                \/ result[j].population > result[k].population
                \/ /\ result[j].population = result[k].population
                   /\ result[j].score >= result[k].score

LangSupplied == "lang" \in args.kwargs.keys
SearchRequests == {k \in 1..Len(queries) : queries[k].kind = "multi_match"}

\* C8: the request of search_place matches names_lang.<code> if and only
\* if a language code is supplied and is not 'xx'; otherwise it matches
\* the fields name and names only.
C8_LangFieldOptIn ==
    op = "search_place" =>
        \A k \in SearchRequests :
            IF LangSupplied /\ args.kwargs.lang # "xx"
            THEN queries[k].fields = <<"name", "names", NamesLangField(args.kwargs.lang)>>
            ELSE queries[k].fields = <<"name", "names">>

\* C9: within one parse or parse_places call, at most one search request
\* is sent for each distinct place string.
C9_OneSearchPerString ==
    op \in {"parse", "parse_places"} =>
        \A p \in PlaceStrings :
            Cardinality({k \in SearchRequests : queries[k].text = p}) <= 1

\* C10: when an index request fails during search_place, parse,
\* parse_place or parse_places, the call ends with the index client's
\* exception and returns no list, and the failed request is the last one
\* the call sent (it is not sent again).
C10_IndexFailureIsFatal ==
    (op \in {"search_place", "parse", "parse_place", "parse_places"}
        /\ FailedRequests # {}) =>
        /\ outcome = "ConnectionError"
        /\ result = <<>>
        /\ FailedRequests = {Len(queries)}

\* C10 witness: an ancestor-name request failed in a parse_place call,
\* after the search had been answered.
C10_Witness ==
    /\ op = "parse_place"
    /\ FailedRequests # {}
    /\ \E k \in FailedRequests : queries[k].kind \in {"terms", "match"}

\* The ids place_locs lists that are no key of hits.
DanglingIds ==
    UNION {Range(place_locs.val[n]) : n \in 1..Len(place_locs.val)}
        \ Range(hits.keys)

\* C11: when place_locs lists an id that is no key of hits, _filter_places
\* ends in an error and returns no list.
C11_MissingHitIsError ==
    (op = "_filter_places" /\ DanglingIds # {}) =>
        /\ outcome # NoExc
        /\ result = <<>>

\* The place strings of the call that survive containment filtering with at
\* least one hit, and the others.
HighLevelIds == {a \in Range(hits.keys) : IdInt(a) \in ids_belongsto(locs)}
Surviving == {p \in SearchedPlaces : IdsOf(place_locs, p) \cap HighLevelIds = {}}

\* A disambiguation on a consistent hit set during which no index request
\* failed.
UndisturbedCall ==
    /\ Disambiguated
    /\ DanglingIds = {}
    /\ FailedRequests = {}
    /\ first.outcome # "ConnectionError"

\* C12: the disambiguator completes without error for empty and partially
\* empty input: a place string without hits, or one dropped by containment
\* filtering, contributes nothing, and the other place strings' results are
\* returned.
C12_NeverRaises ==
    UndisturbedCall =>
        /\ Returned
        /\ \A p \in PlaceStrings :
              (\E k \in 1..Len(result) : result[k].place = p) <=> p \in Surviving

\* The score of the candidate with id a, as the search returned it.
ScoreOf(a) == DictGet(hits, a).score

\* C13: for each place string that survives containment filtering the
\* disambiguator returns exactly one hit, one of the string's own
\* candidates with the highest score among them; any other place string
\* yields none.
C13_WinnerSelection ==
    UndisturbedCall =>
        /\ Returned
        /\ \A p \in Surviving :
              /\ Cardinality({k \in 1..Len(result) : result[k].place = p}) = 1
              /\ \A k \in 1..Len(result) :
                    result[k].place = p =>
                        /\ result[k].id \in IdsOf(place_locs, p)
                        /\ \A a \in IdsOf(place_locs, p) :
                              ScoreOf(a) <= result[k].score
        /\ \A k \in 1..Len(result) : result[k].place \in Surviving

\* The hierarchy levels get_region asks for.
Levels == {"county", "region", "country"}

\* The name of the ancestor of document i at a hierarchy level, None when
\* it cannot be resolved: no hierarchy, no such level, or no such document
\* in the index.
AncestorName(i, level) ==
    IF /\ Catalogue[i].hierarchy # <<>>
       /\ level \in DOMAIN Catalogue[i].hierarchy[1]
       /\ Catalogue[i].hierarchy[1][level] \in idx
    THEN Catalogue[Catalogue[i].hierarchy[1][level]].name
    ELSE None

\* A search_place call that annotated its hits with their region.
RegionCall == op = "search_place" /\ include_region /\ Returned
DocOf(hit) == IdInt(hit.id)

\* C14: get_region for a locality whose county name is resolvable returns
\* the county name, also when the region name is resolvable too.
C14_LocalityCounty ==
    RegionCall =>
        \A k \in 1..Len(result) :
            (/\ result[k].placetype = "locality"
             /\ AncestorName(DocOf(result[k]), "county") # None) =>
                result[k].region = AncestorName(DocOf(result[k]), "county")

\* C14 witness: a locality came back whose county and region are both
\* resolvable.
C14_Witness ==
    /\ RegionCall
    /\ \E k \in 1..Len(result) :
          /\ result[k].placetype = "locality"
          /\ AncestorName(DocOf(result[k]), "county") # None
          /\ AncestorName(DocOf(result[k]), "region") # None

\* C15: get_region for a hit without a resolvable ancestor name at any
\* level returns the hit's own name, never None.
C15_OwnNameFallback ==
    RegionCall =>
        \A k \in 1..Len(result) :
            (\A level \in Levels : AncestorName(DocOf(result[k]), level) = None) =>
                /\ result[k].region = result[k].name
                /\ "region" \notin result[k].none

\* C16: get_region for an empire, a country or a macroregion returns the
\* name of the country-level ancestor when that name is resolvable.
C16_CountryLevel ==
    RegionCall =>
        \A k \in 1..Len(result) :
            (/\ result[k].placetype \in CountryPlacetypes
             /\ AncestorName(DocOf(result[k]), "country") # None) =>
                result[k].region = AncestorName(DocOf(result[k]), "country")

\* The keys of the hit for document i before dehydrate: the stored fields
\* that are not empty and the keys prepare and the caller add.
KeysBeforeDehydrate(i) ==
    Catalogue[i].keys \cup {"_id", "lat", "lon", "_score", "place"}
        \cup (IF include_region THEN {"region"} ELSE {})

DehydratedCall == op \in {"parse_place", "parse_places"} /\ Returned

\* C17: every record dehydrate returns has exactly the declared fields as
\* its keys, and a declared field the input lacks is present with None.
C17_DeclaredFields ==
    DehydratedCall =>
        \A k \in 1..Len(result) :
            /\ result[k].keys = MetaFields
            /\ \A f \in MetaFields :
                  f \notin KeysBeforeDehydrate(DocOf(result[k])) =>
                      f \in result[k].none

\* C17 witness: a place whose document has no population came back with
\* the key population and the value None.
C17_Witness ==
    /\ DehydratedCall
    /\ \E k \in 1..Len(result) :
          /\ "population" \notin Catalogue[DocOf(result[k])].keys
          /\ "population" \in result[k].keys
          /\ "population" \in result[k].none

\* C18: at every statement of a parse_places call, and after the
\* _filter_places call it makes, every id place_locs lists is a key of
\* hits.
C18_HitSetInvariant == frame.pc # "idle" => DanglingIds = {}

\* C18 witness: the call is between the update of hits and the update of
\* place_locs for its second or a later hit.
C18_Witness == frame.pc = "place_locs" /\ place_locs.keys # <<>>

\* C19: no string of the list get_places returns is a strict substring of
\* another string of that list.
C19_OnlySuperstrings ==
    xtor.set =>
        \A i, j \in 1..Len(xtor.places) :
            (xtor.places[i] # xtor.places[j]) =>
                ~InStr(xtor.places[i], xtor.places[j])

\* What the parse call of thread t returns when it runs alone.
Alone(t) == parse(NewCtx(0), idx, get_places(threads[t].entities))

\* C20: of two concurrent parse calls, each ends as it ends when it runs
\* alone, and reads only the Extractor it has assigned itself.
C20_NoSharedState ==
    \A t \in Threads :
        threads[t].pc = "done" =>
            /\ threads[t].outcome = Alone(t).ctx.exc
            /\ threads[t].result = Alone(t).ret
            /\ threads[t].read = t

(***************************************************************************)
(* C21: a Place built with remap from a source that has no latitude and    *)
(* longitude (no geom pair, no pair of another schema, no Point geometry   *)
(* with two coordinates) raises MissingDataError and builds no document;   *)
(* from a source that has them it builds one document whose location is    *)
(* one of the coordinate pairs of the source.                              *)
(***************************************************************************)
CoordinatePairs(source) ==
    { [lat |-> a.val, lon |-> b.val] :
        <<a, b>> \in { ab \in Range(source.properties) \X Range(source.properties) :
                         /\ ab[1].schema = ab[2].schema
                         /\ ab[1].name = "latitude"
                         /\ ab[2].name = "longitude" } }
    \cup
    IF source.geometry.type = "Point" /\ Len(source.geometry.coordinates) = 2
    THEN { [lat |-> source.geometry.coordinates[2],
            lon |-> source.geometry.coordinates[1]] }
    ELSE {}

TopScored(p) ==
    {a \in IdsOf(place_locs, p) :
        \A b \in IdsOf(place_locs, p) : ScoreOf(b) <= ScoreOf(a)}
FirstListed(p, S) ==
    DictGet(place_locs, p)[
        CHOOSE n \in 1..Len(DictGet(place_locs, p)) :
            /\ DictGet(place_locs, p)[n] \in S
            /\ \A m \in 1..(n - 1) : DictGet(place_locs, p)[m] \notin S]

PairedPlaces ==
    {p \in Surviving : Cardinality(IdsOf(place_locs, p)) >= 2}

WithTokens ==
    {a \in Range(hits.keys) : DictGet(hits, a).belongsto.kind = "names"}

C25_OneBatchedLookup ==
    Disambiguated \/ op = "parse" =>
        /\ Cardinality(AncestorLookups) <= 1
        /\ \A k \in AncestorLookups :
              /\ queries[k].kind = "terms"
              /\ Range(queries[k].ids) = ids_belongsto(locs)

\* The rec of the get_hierarchy_items call has a hierarchy entry for the
\* level asked for; the ancestor id of that level; the positions of that id
\* in the belongs_to list handed in.
HasLevel ==
    /\ "hierarchy" \in Catalogue[args.rec].keys
    /\ Catalogue[args.rec].hierarchy # <<>>
    /\ args.item_type \in DOMAIN Catalogue[args.rec].hierarchy[1]
LevelId == Catalogue[args.rec].hierarchy[1][args.item_type]
InBelongsTo ==
    {k \in 1..Len(args.belongs_to) : args.belongs_to[k].id = LevelId}

\* C26: get_hierarchy_items returns None without a request when rec has no
\* hierarchy entry for the level; it returns a name the belongs_to list
\* holds for the ancestor id, without a request, when the list holds the
\* id; otherwise it sends exactly one match request for that id, and
\* returns None when the index does not hold it.
C26_HierarchyItem ==
    op = "get_hierarchy_items" =>
        /\ ~HasLevel => queries = <<>> /\ Returned /\ result = <<None>>
        /\ HasLevel /\ InBelongsTo # {} =>
              /\ queries = <<>>
              /\ Returned
              /\ \E k \in InBelongsTo : result = <<args.belongs_to[k].name>>
        /\ HasLevel /\ InBelongsTo = {} =>
              /\ Len(queries) = 1
              /\ queries[1].kind = "match"
              /\ queries[1].ids = <<LevelId>>
              /\ Returned /\ LevelId \notin idx => result = <<None>>
              /\ Returned /\ LevelId \in idx =>
                    result = <<Catalogue[LevelId].name>>

C26_Witness ==
    /\ op = "get_hierarchy_items"
    /\ HasLevel
    /\ InBelongsTo # {}
    /\ LevelId \in idx
    /\ queries = <<>>
    /\ result = <<"Kanada">>

\* The place strings whose search returned the hit with id a and nothing
\* else: a is the hit chosen for them.
WonBy(a) == {p \in Surviving : IdsOf(place_locs, p) = {a}}

\* C27: every record parse_places returns is annotated with a place string
\* of the call whose search returned the record's hit, and a hit that is
\* returned is returned for each place string it was chosen for, annotated
\* with that place string: also when the same hit was found for two place
\* strings.
C27_OwnPlaceString ==
    op = "parse_places" /\ Returned /\ FailedRequests = {} =>
        /\ \A k \in 1..Len(result) :
              /\ result[k].place \in SearchedPlaces
              /\ result[k].id \in IdsOf(place_locs, result[k].place)
        /\ \A a \in ResultIds : \A p \in WonBy(a) :
              \E k \in 1..Len(result) :
                  result[k].id = a /\ result[k].place = p

\* A Model() or ensure_model call has just ended.
ModelCall == op \in {"Model", "ensure_model"}

\* C28: every Model() yields the one instance; a language's model is
\* stored at most once; a model the table held before a call is the model
\* it holds after it; ensure_model of a language the table does not list
\* raises NotSupportedModelError and leaves the table as it was.
C28_LoadOnce ==
    /\ models.created <= 1
    /\ op = "Model" /\ Returned => result = <<1>> /\ models.instance = 1
    /\ \A l \in DOMAIN spacy_lang_model : models.loads[l] <= 1
    /\ ModelCall =>
          \A l \in DOMAIN spacy_lang_model :
              args.before[l] # 0 => models.spacy[l] = args.before[l]
    /\ op = "ensure_model" /\ args.lang \notin DOMAIN spacy_lang_model =>
          /\ outcome = "NotSupportedModelError"
          /\ models.spacy = args.before

C28_Witness ==
    /\ op = "ensure_model"
    /\ args.lang = "cs"
    /\ args.before["cs"] # 0
    /\ args.load = "loaded"
    /\ models.loads["cs"] = 1
    /\ models.spacy["en"] # 0

\* C29: a detect_lang call on a text of more than lim characters returns,
\* whatever the detector does on the truncations of the text.
C29_Terminates == (detect.pc = "loop") ~> (detect.pc = "done")

====
